---- MODULE Spec2Model ----
(***************************************************************************)
(* A model of etl.py: main() loads the execution and ticker tables of an  *)
(* SQLite3 database, writes them as CSV, aggregates the signed execution   *)
(* sizes per timestamp, smooths the per-timestamp flow with pandas'       *)
(* exponentially weighted mean and standard deviation for three decay      *)
(* parameters, and writes the tables and a chart.  load_dfs() reads the    *)
(* tick and execution CSVs back.                                           *)
(*                                                                         *)
(* Numbers: sizes are exact integers, decay parameters and weighted means  *)
(* are exact rationals <<numerator, denominator>> in lowest terms.         *)
(***************************************************************************)
EXTENDS Integers, Sequences, FiniteSets

VARIABLES pc, args, fs, con, dfs, files, written, df_exec_delta, df_ewm,
          err, loaded, ex, ea, eout

vars == <<pc, args, fs, con, dfs, files, written, df_exec_delta, df_ewm,
          err, loaded, ex, ea, eout>>

mainVars == <<pc, args, fs, con, dfs, files, written, df_exec_delta, df_ewm,
              err, loaded>>

ewmVars == <<ex, ea, eout>>

---------------------------------------------------------------------------
(* Bounds of the model *)

\* longest execution table of the database
MaxLen == 3
\* longest flow series handed to the smoothing functions on their own
MaxFlow == 3
\* largest absolute flow value handed to the smoothing functions on their own
MaxX == 2

---------------------------------------------------------------------------
(* Exact rational arithmetic: a rational is a pair <<n, d>> in lowest      *)
(* terms with d > 0. The operations are defined on such pairs only, which  *)
(* the guard of each CASE states.                                          *)

Abs(n) == IF n < 0 THEN -n ELSE n

RECURSIVE GCD(_, _)
GCD(a, b) == IF b = 0 THEN a ELSE GCD(b, a % b)

\* the rational n/d in lowest terms with a positive denominator
Norm(n, d) ==
    LET g == GCD(Abs(n), Abs(d))
        s == IF d < 0 THEN -1 ELSE 1
    IN  CASE g > 0 -> <<(s * n) \div g, (s * d) \div g>>

RInt(n) == <<n, 1>>

RAdd(p, q) ==
    LET g == GCD(p[2], q[2])
    IN  CASE p[2] > 0 /\ q[2] > 0 /\ g > 0 ->
            Norm(p[1] * (q[2] \div g) + q[1] * (p[2] \div g), (p[2] \div g) * q[2])

RNeg(p) == <<-p[1], p[2]>>

RSub(p, q) == CASE p[2] > 0 /\ q[2] > 0 -> RAdd(p, RNeg(q))

RMul(p, q) ==
    CASE p[2] > 0 /\ q[2] > 0 ->
        LET a == Norm(p[1], q[2])
            b == Norm(q[1], p[2])
        IN  <<a[1] * b[1], a[2] * b[2]>>

\* q is not zero
RDiv(p, q) == CASE p[2] > 0 /\ q[1] # 0 -> RMul(p, Norm(q[2], q[1]))

RPos(p) == p[1] > 0

RECURSIVE RPow(_, _)
RPow(p, k) == CASE p[2] > 0 -> IF k = 0 THEN RInt(1) ELSE RMul(p, RPow(p, k - 1))

RECURSIVE RSum(_, _, _)
\* sum of f[j] for j in lo..hi
RSum(f, lo, hi) == IF lo > hi THEN RInt(0) ELSE RAdd(f[lo], RSum(f, lo + 1, hi))

---------------------------------------------------------------------------
(* Sequences *)

RECURSIVE SeqsUpTo(_, _)
\* the sequences over S of length at most n
SeqsUpTo(S, n) ==
    IF n = 0 THEN {<<>>}
    ELSE LET shorter == SeqsUpTo(S, n - 1)
         IN  shorter \cup {Append(s, e) : s \in {t \in shorter : Len(t) = n - 1}, e \in S}

SetMin(S) == CHOOSE m \in S : \A o \in S : m <= o

RECURSIVE SortAsc(_)
\* the elements of a finite set of integers in ascending order
SortAsc(S) ==
    IF S = {} THEN <<>>
    ELSE LET m == SetMin(S) IN <<m>> \o SortAsc(S \ {m})

RECURSIVE Concat(_)
\* the concatenation of a sequence of sequences
Concat(ss) == IF ss = <<>> THEN <<>> ELSE Head(ss) \o Concat(Tail(ss))

Range(s) == {s[i] : i \in DOMAIN s}

---------------------------------------------------------------------------
(* pandas' exponentially weighted functions, Series.ewm(com=c) with the    *)
(* defaults adjust=True, ignore_na=False, min_periods=0, and bias=False    *)
(* for std(): the weight of x[j] in the window ending at i is              *)
(* (1 - alpha)^(i - j) with alpha = 1 / (1 + com).                         *)

\* a slip in the parameterization: com=(1 / a), one more than intended
ComNoMinusOne(a) == RDiv(RInt(1), a)

\* com=(1 / a - 1), the argument main passes to ewm
Com(a) == RSub(RDiv(RInt(1), a), RInt(1))

\* pandas: alpha = 1 / (1 + com)
EwmAlpha(com) == CASE com[2] > 0 -> RDiv(RInt(1), RAdd(RInt(1), com))

\* 1 - alpha, the factor by which a weight decays per step
EwmDecay(com) == CASE com[2] > 0 -> RSub(RInt(1), EwmAlpha(com))

\* the weight of the observation k steps back, for the decay factor w
EwmWeight(w, k) == RPow(w, k)

\* the sum of the weights of the window ending at i
EwmSumWt(com, i) ==
    LET w == EwmDecay(com)
    IN  CASE w[2] > 0 -> RSum([j \in 1..i |-> EwmWeight(w, i - j)], 1, i)

\* the sum of the squared weights of the window ending at i
EwmSumWt2(com, i) ==
    LET w == EwmDecay(com)
    IN  CASE w[2] > 0 ->
            RSum([j \in 1..i |-> RMul(EwmWeight(w, i - j), EwmWeight(w, i - j))], 1, i)

\* ewm(com).mean() at index i of the integer series x
EwmMean(x, com, i) ==
    LET w == EwmDecay(com)
        sum_wt == EwmSumWt(com, i)
    IN  CASE i \in 1..Len(x) /\ w[2] > 0 /\ sum_wt[2] > 0 ->
            RDiv(RSum([j \in 1..i |-> RMul(EwmWeight(w, i - j), RInt(x[j]))], 1, i),
                 sum_wt)

\* the denominator of the bias correction of ewm(com).var(bias=False):
\* sum_wt * sum_wt - sum_wt2
EwmDebiasDen(com, i) ==
    LET sum_wt == EwmSumWt(com, i)
        sum_wt2 == EwmSumWt2(com, i)
    IN  CASE sum_wt[2] > 0 /\ sum_wt2[2] > 0 -> RSub(RMul(sum_wt, sum_wt), sum_wt2)

\* ewm(com).std() at index i is a number (not NaN): the series has i points
\* and the denominator of the bias correction is positive
EwmStdDefined(x, com, i) == i \in 1..Len(x) /\ RPos(EwmDebiasDen(com, i))

\* the weighted variance around the weighted mean, before bias correction
EwmBiasedVar(x, com, i) ==
    LET w == EwmDecay(com)
        sum_wt == EwmSumWt(com, i)
        m == EwmMean(x, com, i)
        d(j) == RSub(RInt(x[j]), m)
    IN  CASE i \in 1..Len(x) /\ w[2] > 0 /\ sum_wt[2] > 0 /\ m[2] > 0 ->
            RDiv(RSum([j \in 1..i |-> RMul(EwmWeight(w, i - j), RMul(d(j), d(j)))], 1, i),
                 sum_wt)

\* the variance without the bias correction, as with std(bias=True)
EwmVarBiased(x, com, i) == EwmBiasedVar(x, com, i)

\* the square of ewm(com).std() at index i, where it is defined
EwmVar(x, com, i) ==
    LET sum_wt == EwmSumWt(com, i)
        den == EwmDebiasDen(com, i)
        biased == EwmBiasedVar(x, com, i)
    IN  CASE sum_wt[2] > 0 /\ den[2] > 0 /\ biased[2] > 0 ->
            RMul(RDiv(RMul(sum_wt, sum_wt), den), biased)

---------------------------------------------------------------------------
(* The data main works on *)

\* sqlite3.connect('lightning.sqlite3') and the documented default of --sqlite
DefaultPath == "lightning.sqlite3"
OtherPath == "other.sqlite3"
Paths == {DefaultPath, OtherPath}

ExecTable == "lightning_executions_FX_BTC_JPY"
TickTable == "lightning_ticker_FX_BTC_JPY"

\* the columns the two SELECT statements project
ExecColumns == <<"exec_date", "price", "side", "size">>
TickColumns == <<"timestamp", "ltp">>

\* alpha = [0.01, 0.05, 0.1]
alpha == << <<1, 100>>, <<1, 20>>, <<1, 10>> >>

\* the values the rows of the modelled databases are drawn from
Timestamps == {1, 2, 3}
Trades == { <<"BUY", 2>>, <<"SELL", 1>>, <<"", 1>> }
ExecRows ==
    { [exec_date |-> t, price |-> 100, side |-> tr[1], size |-> tr[2]] :
        t \in Timestamps, tr \in Trades }
TickRows == << [timestamp |-> 2, ltp |-> 100], [timestamp |-> 1, ltp |-> 101] >>

\* a database file: whether sqlite3 can open it, the tables it has, their rows
Db(openable, tables, exec, tick) ==
    [openable |-> openable, tables |-> tables, exec |-> exec, tick |-> tick]

DefaultDbs ==
    { Db(FALSE, {}, <<>>, <<>>), Db(TRUE, {TickTable}, <<>>, TickRows) }
    \cup { Db(TRUE, {ExecTable, TickTable}, e, TickRows) : e \in SeqsUpTo(ExecRows, MaxLen) }
    \cup { Db(TRUE, {ExecTable}, e, <<>>) : e \in SeqsUpTo(ExecRows, 1) }

OtherDbs ==
    { Db(TRUE, {ExecTable, TickTable},
         << [exec_date |-> 9, price |-> 100, side |-> "BUY", size |-> 7] >>, TickRows) }

\* a DataFrame: the names of its index and of its columns, and its rows
Frame(index, columns, rows) == [index |-> index, columns |-> columns, rows |-> rows]
NoFrame == Frame(<<>>, <<>>, <<>>)

\* DataFrame.to_csv(path, index=...): the header line and the rows
ToCsv(df, index) ==
    [header |-> IF index THEN df.index \o df.columns ELSE df.columns, rows |-> df.rows]

NoCon == [open |-> FALSE, path |-> ""]

---------------------------------------------------------------------------
(* The transformations of main *)

\* np.where(d['side'] == 'BUY', d['size'], - d['size'])
SignedSize(row) == IF row.side = "BUY" THEN row.size ELSE -row.size

\* assign(signed_size=...).rename(columns={'exec_date': 'timestamp'})
Signed(rows) ==
    [i \in DOMAIN rows |->
        [timestamp |-> rows[i].exec_date, price |-> rows[i].price, side |-> rows[i].side,
         size |-> rows[i].size, signed_size |-> SignedSize(rows[i])]]

RECURSIVE GroupSum(_, _)
\* the sum of signed_size over the rows of one group, in row order
GroupSum(rows, key) ==
    IF rows = <<>> THEN 0
    ELSE (IF Head(rows).timestamp = key THEN Head(rows).signed_size ELSE 0)
         + GroupSum(Tail(rows), key)

RECURSIVE FirstSeen(_, _)
\* the distinct timestamps in order of first appearance
FirstSeen(rows, seen) ==
    IF rows = <<>> THEN <<>>
    ELSE IF Head(rows).timestamp \in seen THEN FirstSeen(Tail(rows), seen)
         ELSE <<Head(rows).timestamp>>
              \o FirstSeen(Tail(rows), seen \cup {Head(rows).timestamp})

\* the group keys as groupby('timestamp', sort=False) would give them
GroupKeysUnsorted(rows) == FirstSeen(rows, {})

\* the group keys of groupby('timestamp'), which sorts them (sort=True)
GroupKeys(rows) == SortAsc({rows[i].timestamp : i \in DOMAIN rows})

\* groupby('timestamp')['signed_size'].sum().to_frame(name='size')
GroupBySum(rows) ==
    LET keys == GroupKeys(rows)
    IN  Frame(<<"timestamp">>, <<"size">>,
              [k \in DOMAIN keys |-> [timestamp |-> keys[k], size |-> GroupSum(rows, keys[k])]])

\* the size column of a frame as a series
SizeSeries(df) == [i \in DOMAIN df.rows |-> df.rows[i].size]

\* df_exec_delta.reset_index().assign(alpha=a, ewma=..., ewmstd=...): the
\* ewmstd cell is kept as NaN or not NaN only
EwmFrame(df, a) ==
    LET x == SizeSeries(df)
    IN  [i \in DOMAIN df.rows |->
            [timestamp |-> df.rows[i].timestamp, size |-> df.rows[i].size, alpha |-> a,
             ewma |-> EwmMean(x, Com(a), i),
             ewmstd_nan |-> ~EwmStdDefined(x, Com(a), i)]]

\* a row has a NaN cell (the integer and the mean cells never are NaN)
HasNa(row) == row.ewmstd_nan

\* DataFrame.dropna(how='all'): no row has NaN in all of its cells
DropNaAll(rows) == SelectSeq(rows, LAMBDA r : TRUE)

\* DataFrame.dropna(how='any')
DropNa(rows) == SelectSeq(rows, LAMBDA r : ~HasNa(r))

\* the smoothed rows interleaved: for each timestamp, one row per alpha
DfEwmByTimestamp(df) ==
    Frame(<<>>, <<"timestamp", "size", "alpha", "ewma", "ewmstd">>,
          DropNa(Concat([i \in DOMAIN df.rows |->
                            [k \in DOMAIN alpha |-> EwmFrame(df, alpha[k])[i]]])))

\* pd.concat([... for a in alpha]).dropna(how='any')
DfEwm(df) ==
    Frame(<<>>, <<"timestamp", "size", "alpha", "ewma", "ewmstd">>,
          DropNa(Concat([k \in DOMAIN alpha |-> EwmFrame(df, alpha[k])])))

---------------------------------------------------------------------------
(* main *)

Artifacts == {"df_tick.csv", "df_exec.csv", "df_exec_delta.csv", "df_ewm.csv", "ewma.png"}
NoFile == [header |-> <<>>, rows |-> <<>>]
NoArgs == [sqlite |-> ""]
NotLoaded == [status |-> "none", failed |-> ""]

\* the working directory is writable: path is created or overwritten
WriteFile(path, content) ==
    /\ files' = [files EXCEPT ![path] = content]
    /\ written' = Append(written, path)

Init ==
    /\ pc = "start"
    /\ args = NoArgs
    /\ \E d \in DefaultDbs, o \in OtherDbs :
            fs = [p \in Paths |-> IF p = DefaultPath THEN d ELSE o]
    /\ con = NoCon
    /\ dfs = [exec |-> NoFrame, tick |-> NoFrame]
    /\ files = [a \in Artifacts |-> NoFile]
    /\ written = <<>>
    /\ df_exec_delta = NoFrame
    /\ df_ewm = NoFrame
    /\ err = ""
    /\ loaded = NotLoaded
    /\ ex = <<>>
    /\ ea = <<1, 1>>
    /\ eout = <<>>

\* args = docopt(__doc__, ...): --sqlite=<path> [default: lightning.sqlite3]
Docopt ==
    /\ pc = "start"
    /\ \E p \in Paths : args' = [sqlite |-> p]
    /\ pc' = "connect"
    /\ UNCHANGED <<fs, con, dfs, files, written, df_exec_delta, df_ewm, err, loaded>>
    /\ UNCHANGED ewmVars

\* with sqlite3.connect('lightning.sqlite3') as con:
Connect ==
    /\ pc = "connect"
    /\ IF fs[DefaultPath].openable
       THEN /\ con' = [open |-> TRUE, path |-> DefaultPath]
            /\ pc' = "read_exec"
            /\ err' = err
       ELSE /\ con' = con
            /\ pc' = "failed"
            /\ err' = "DataSourceError"
    /\ UNCHANGED <<args, fs, dfs, files, written, df_exec_delta, df_ewm, loaded>>
    /\ UNCHANGED ewmVars

\* the execution table written as soon as it is read, inside the with block
ReadExecWriting ==
    /\ pc = "read_exec"
    /\ IF ExecTable \in fs[con.path].tables
       THEN /\ dfs' = [dfs EXCEPT !.exec = Frame(<<>>, ExecColumns, fs[con.path].exec)]
            /\ WriteFile("df_exec.csv", ToCsv(dfs'.exec, FALSE))
            /\ pc' = "read_tick"
            /\ err' = err
       ELSE /\ dfs' = dfs
            /\ UNCHANGED <<files, written>>
            /\ pc' = "failed"
            /\ err' = "DataSourceError"
    /\ UNCHANGED <<args, fs, con, df_exec_delta, df_ewm, loaded>>
    /\ UNCHANGED ewmVars

\* pd.read_sql('SELECT exec_date, price, side, size FROM ...', con=con); an
\* exception leaves the with block, whose exit rolls back and keeps con open
ReadExec ==
    /\ pc = "read_exec"
    /\ IF ExecTable \in fs[con.path].tables
       THEN /\ dfs' = [dfs EXCEPT !.exec = Frame(<<>>, ExecColumns, fs[con.path].exec)]
            /\ pc' = "read_tick"
            /\ err' = err
       ELSE /\ dfs' = dfs
            /\ pc' = "failed"
            /\ err' = "DataSourceError"
    /\ UNCHANGED <<args, fs, con, files, written, df_exec_delta, df_ewm, loaded>>
    /\ UNCHANGED ewmVars

\* pd.read_sql('SELECT timestamp, ltp FROM ...', con=con)
ReadTick ==
    /\ pc = "read_tick"
    /\ IF TickTable \in fs[con.path].tables
       THEN /\ dfs' = [dfs EXCEPT !.tick = Frame(<<>>, TickColumns, fs[con.path].tick)]
            /\ pc' = "exit_with"
            /\ err' = err
       ELSE /\ dfs' = dfs
            /\ pc' = "failed"
            /\ err' = "DataSourceError"
    /\ UNCHANGED <<args, fs, con, files, written, df_exec_delta, df_ewm, loaded>>
    /\ UNCHANGED ewmVars

\* the end of the with block: sqlite3's context manager commits the
\* transaction and does not close the connection
ExitWith ==
    /\ pc = "exit_with"
    /\ pc' = "write_tick"
    /\ UNCHANGED <<args, fs, con, dfs, files, written, df_exec_delta, df_ewm, err, loaded>>
    /\ UNCHANGED ewmVars

\* dfs['tick'].to_csv('df_tick.csv', index=False)
WriteTick ==
    /\ pc = "write_tick"
    /\ WriteFile("df_tick.csv", ToCsv(dfs.tick, FALSE))
    /\ pc' = "write_exec"
    /\ UNCHANGED <<args, fs, con, dfs, df_exec_delta, df_ewm, err, loaded>>
    /\ UNCHANGED ewmVars

\* dfs['exec'].to_csv('df_exec.csv', index=False)
WriteExec ==
    /\ pc = "write_exec"
    /\ WriteFile("df_exec.csv", ToCsv(dfs.exec, FALSE))
    /\ pc' = "exec_delta"
    /\ UNCHANGED <<args, fs, con, dfs, df_exec_delta, df_ewm, err, loaded>>
    /\ UNCHANGED ewmVars

\* df_exec_delta = ...; df_exec_delta.to_csv('df_exec_delta.csv', index=True)
WriteExecDelta ==
    /\ pc = "exec_delta"
    /\ df_exec_delta' = GroupBySum(Signed(dfs.exec.rows))
    /\ WriteFile("df_exec_delta.csv", ToCsv(df_exec_delta', TRUE))
    /\ pc' = "ewm"
    /\ UNCHANGED <<args, fs, con, dfs, df_ewm, err, loaded>>
    /\ UNCHANGED ewmVars

\* df_ewm = ...; df_ewm.to_csv('df_ewm.csv', index=False)
WriteEwm ==
    /\ pc = "ewm"
    /\ df_ewm' = DfEwm(df_exec_delta)
    /\ WriteFile("df_ewm.csv", ToCsv(df_ewm', FALSE))
    /\ pc' = "plot"
    /\ UNCHANGED <<args, fs, con, dfs, df_exec_delta, err, loaded>>
    /\ UNCHANGED ewmVars

\* the distinct values of the facet column, ascending
Facets(rows) == SelectSeq(alpha, LAMBDA a : a \in {rows[i].alpha : i \in DOMAIN rows})

\* sns.FacetGrid(df_ewm, col='alpha', ...).map(...).savefig('ewma.png')
SavePlot ==
    /\ pc = "plot"
    /\ WriteFile("ewma.png", [header |-> <<"alpha">>, rows |-> Facets(df_ewm.rows)])
    /\ pc' = "return"
    /\ UNCHANGED <<args, fs, con, dfs, df_exec_delta, df_ewm, err, loaded>>
    /\ UNCHANGED ewmVars

\* a grid over a table without rows has no facet to draw on: depending on
\* the seaborn release the call raises instead of saving an empty figure
PlotFails ==
    /\ pc = "plot"
    /\ df_ewm.rows = <<>>
    /\ pc' = "failed"
    /\ err' = "PlotError"
    /\ UNCHANGED <<args, fs, con, dfs, files, written, df_exec_delta, df_ewm, loaded>>
    /\ UNCHANGED ewmVars

\* main returns: nothing has closed con, and the connection stays open until
\* the runtime collects the object
Return ==
    /\ pc = "return"
    /\ pc' = "done"
    /\ UNCHANGED <<args, fs, con, dfs, files, written, df_exec_delta, df_ewm, err, loaded>>
    /\ UNCHANGED ewmVars

\* the garbage collector finalizes the connection object of main at some
\* point after main has ended, by a return or by an exception its caller
\* handles: before, between or after the reads of load_dfs, or never within
\* the run
Collect ==
    /\ pc \in {"failed", "done", "loaded"}
    /\ con.open
    /\ con' = NoCon
    /\ UNCHANGED <<pc, args, fs, dfs, files, written, df_exec_delta, df_ewm, err, loaded>>
    /\ UNCHANGED ewmVars

\* pd.read_csv(path, index_col='timestamp', parse_dates=True) fails when the
\* header has no column of that name
ReadCsvFails(path) == "timestamp" \notin Range(files[path].header)

\* load_dfs(): reads df_tick.csv, then df_exec.csv
LoadDfs ==
    /\ pc = "done"
    /\ loaded' = IF ReadCsvFails("df_tick.csv") THEN [status |-> "ValueError", failed |-> "tick"]
                 ELSE IF ReadCsvFails("df_exec.csv")
                      THEN [status |-> "ValueError", failed |-> "exec"]
                      ELSE [status |-> "ok", failed |-> ""]
    /\ pc' = "loaded"
    /\ UNCHANGED <<args, fs, con, dfs, files, written, df_exec_delta, df_ewm, err>>
    /\ UNCHANGED ewmVars

Next ==
    \/ Docopt
    \/ Connect
    \/ ReadExec
    \/ ReadTick
    \/ ExitWith
    \/ WriteTick
    \/ WriteExec
    \/ WriteExecDelta
    \/ WriteEwm
    \/ SavePlot
    \/ PlotFails
    \/ Return
    \/ Collect
    \/ LoadDfs

Spec == Init /\ [][Next]_vars

---------------------------------------------------------------------------
(* The smoothing of lines 71-76 on its own: one flow series ex, one decay  *)
(* parameter ea, with the value of the standard deviation kept as its      *)
(* square.                                                                 *)

\* the values of a handed to ewm(com=(1 / a - 1)): the configured ones and,
\* for the recurrences on longer series, 1/2, 1/4, 3/4 and the boundary 1
EwmAlphas == Range(alpha) \cup { <<1, 2>>, <<1, 4>>, <<3, 4>>, <<1, 1>> }

\* the series smoothed with a: with a configured a, whose powers of 1 - a
\* have large denominators, the series of at most two points, for which
\* every intermediate value of the exact arithmetic is a 32-bit integer
EwmSeries(a) == SeqsUpTo(-MaxX..MaxX, IF a \in Range(alpha) THEN 2 ELSE MaxFlow)

\* the flow frame of the series x, with timestamps 1, 2, ...
FlowOf(x) ==
    Frame(<<"timestamp">>, <<"size">>, [i \in DOMAIN x |-> [timestamp |-> i, size |-> x[i]]])

\* reset_index().assign(alpha=a, ewma=..., ewmstd=...) with the square of ewmstd
EwmFrameVar(df, a) ==
    LET x == SizeSeries(df)
        rows == EwmFrame(df, a)
    IN  [i \in DOMAIN rows |->
            [timestamp |-> rows[i].timestamp, size |-> rows[i].size, alpha |-> a,
             ewma |-> rows[i].ewma, ewmstd_nan |-> rows[i].ewmstd_nan,
             var |-> IF rows[i].ewmstd_nan THEN RInt(0) ELSE EwmVar(x, Com(a), i)]]

InitEwm ==
    /\ pc = "e_start"
    /\ ea \in EwmAlphas
    /\ ex \in EwmSeries(ea)
    /\ eout = <<>>
    /\ args = NoArgs
    /\ fs = [p \in Paths |-> Db(FALSE, {}, <<>>, <<>>)]
    /\ con = NoCon
    /\ dfs = [exec |-> NoFrame, tick |-> NoFrame]
    /\ files = [a \in Artifacts |-> NoFile]
    /\ written = <<>>
    /\ df_exec_delta = NoFrame
    /\ df_ewm = NoFrame
    /\ err = ""
    /\ loaded = NotLoaded

\* df_exec_delta.reset_index().assign(alpha=a, ewma=..., ewmstd=...)
EwmAssign ==
    /\ pc = "e_start"
    /\ eout' = EwmFrameVar(FlowOf(ex), ea)
    /\ pc' = "e_assigned"
    /\ UNCHANGED <<ex, ea, args, fs, con, dfs, files, written, df_exec_delta, df_ewm,
                   err, loaded>>

\* .dropna(how='any')
EwmDropNa ==
    /\ pc = "e_assigned"
    /\ eout' = DropNa(eout)
    /\ pc' = "e_done"
    /\ UNCHANGED <<ex, ea, args, fs, con, dfs, files, written, df_exec_delta, df_ewm,
                   err, loaded>>

NextEwm ==
    \/ EwmAssign
    \/ EwmDropNa

SpecEwm == InitEwm /\ [][NextEwm]_vars

---------------------------------------------------------------------------
(* The recurrences of the smoothing engine as the design states them, for  *)
(* the decay parameter a and the series x                                  *)

RECURSIVE SpecS(_, _, _)
\* S_i = x_i + (1 - a) * S_(i-1), S_0 = 0
SpecS(x, a, i) ==
    IF i = 0 THEN RInt(0)
    ELSE LET prev == SpecS(x, a, i - 1)
         IN  CASE prev[2] > 0 -> RAdd(RInt(x[i]), RMul(RSub(RInt(1), a), prev))

RECURSIVE SpecW(_, _)
\* W_i = 1 + (1 - a) * W_(i-1), W_0 = 0
SpecW(a, i) ==
    IF i = 0 THEN RInt(0)
    ELSE LET prev == SpecW(a, i - 1)
         IN  CASE prev[2] > 0 -> RAdd(RInt(1), RMul(RSub(RInt(1), a), prev))

RECURSIVE SpecWsq(_, _)
\* Wsq_i = 1 + (1 - a)^2 * Wsq_(i-1), Wsq_0 = 0
SpecWsq(a, i) ==
    IF i = 0 THEN RInt(0)
    ELSE LET prev == SpecWsq(a, i - 1)
         IN  CASE prev[2] > 0 ->
             RAdd(RInt(1), RMul(RMul(RSub(RInt(1), a), RSub(RInt(1), a)), prev))

\* mean_i = S_i / W_i (mean_0 only ever appears multiplied by W_0 = 0)
SpecMean(x, a, i) ==
    IF i = 0 THEN RInt(0)
    ELSE LET s == SpecS(x, a, i)
             w == SpecW(a, i)
         IN  CASE s[2] > 0 /\ w[2] > 0 -> RDiv(s, w)

RSq(p) == CASE p[2] > 0 -> RMul(p, p)

RECURSIVE SpecDInc(_, _, _)
\* D_i = (1 - a) * D_(i-1) + (1 - a) * W_(i-1) / W_i * (x_i - mean_(i-1))^2, D_0 = 0
SpecDInc(x, a, i) ==
    IF i = 0 THEN RInt(0)
    ELSE LET prev == SpecDInc(x, a, i - 1)
             mean == SpecMean(x, a, i - 1)
             w_prev == SpecW(a, i - 1)
             w == SpecW(a, i)
         IN  CASE prev[2] > 0 /\ mean[2] > 0 /\ w_prev[2] > 0 /\ w[2] > 0 ->
             RAdd(RMul(RSub(RInt(1), a), prev),
                  RMul(RMul(RSub(RInt(1), a), RDiv(w_prev, w)),
                       RSq(RSub(RInt(x[i]), mean))))

\* the sum over j <= i of (1 - a)^(i-j) * (x_j - mean_i)^2
SpecDFull(x, a, i) ==
    LET mean == SpecMean(x, a, i)
    IN  CASE mean[2] > 0 ->
            RSum([j \in 1..i |-> RMul(RPow(RSub(RInt(1), a), i - j),
                                      RSq(RSub(RInt(x[j]), mean)))], 1, i)

\* W_i - Wsq_i / W_i, the denominator of var_i, for i >= 1
SpecVarDen(a, i) ==
    LET w == SpecW(a, i)
        wsq == SpecWsq(a, i)
    IN  CASE w[2] > 0 /\ wsq[2] > 0 -> RSub(w, RDiv(wsq, w))

\* std_i is defined
SpecStdDefined(a, i) == RPos(SpecVarDen(a, i))

---------------------------------------------------------------------------
(* Claims about the smoothing functions, checked under SpecEwm *)

\* C9: the weighted mean computed for index i under the label alpha = a is
\* S_i / W_i of the recurrences with decay factor 1 - a, for every row of the
\* assigned and of the emitted table; for x = [1, -1, 2] and a = 0.5 the means
\* are 1, -1/3 and 1.
C9_EwmaIsSOverW ==
    pc \in {"e_assigned", "e_done"} =>
        /\ \A k \in DOMAIN eout :
              /\ eout[k].alpha = ea
              /\ eout[k].timestamp \in 1..Len(ex)
              /\ eout[k].ewma = SpecMean(ex, ea, eout[k].timestamp)
        /\ (pc = "e_assigned" /\ ex = <<1, -1, 2>> /\ ea = <<1, 2>>) =>
              [k \in 1..3 |-> eout[k].ewma] = << <<1, 1>>, <<-1, 3>>, <<1, 1>> >>

\* C9 witness: the series [1, -1, 2] smoothed with a = 0.5 has emitted its
\* second and third mean, -1/3 and 1.
C9_Witness ==
    /\ pc = "e_done"
    /\ ex = <<1, -1, 2>>
    /\ ea = <<1, 2>>
    /\ [k \in DOMAIN eout |-> eout[k].ewma] = << <<-1, 3>>, <<1, 1>> >>

\* C10: at every index the incrementally updated D_i equals the full weighted
\* sum of squared deviations from mean_i; the variance the code computes is
\* defined exactly when W_i - Wsq_i / W_i is strictly positive, which is never
\* at i = 1, at every i >= 2 when a < 1 and at no i when a = 1; where it is
\* defined it is D_i / (W_i - Wsq_i / W_i).
C10_IncrementalVariance ==
    pc = "e_assigned" =>
        /\ Len(eout) = Len(ex)
        /\ \A i \in DOMAIN eout :
              /\ SpecDInc(ex, ea, i) = SpecDFull(ex, ea, i)
              /\ ~eout[i].ewmstd_nan <=> SpecStdDefined(ea, i)
              /\ SpecStdDefined(ea, i) <=> (i >= 2 /\ ea[1] < ea[2])
              /\ ~eout[i].ewmstd_nan =>
                    eout[i].var = RDiv(SpecDInc(ex, ea, i), SpecVarDen(ea, i))

\* C10 witness: a three-point series with a = 0.5 whose third variance is
\* defined and positive, next to an undefined first one.
C10_Witness ==
    /\ pc = "e_assigned"
    /\ Len(ex) = 3
    /\ ea = <<1, 2>>
    /\ eout[1].ewmstd_nan
    /\ ~eout[3].ewmstd_nan
    /\ eout[3].var[1] > 0

---------------------------------------------------------------------------
(* Claims about main and load_dfs, checked under Spec *)

Wrote(path) == path \in Range(written)

LoadPhase == {"start", "connect", "read_exec", "read_tick", "exit_with"}

\* C1: the data store the load phase opens is the one the --sqlite option
\* names (the default file when the option is not given).
C1_OpensSqliteOption == con.open => con.path = args.sqlite

\* C2: BUY is signed +size and SELL -size, and a record whose side is neither
\* BUY nor SELL ends the run in a malformed-record error without any flow table
\* being written.
C2_SignerRejectsOtherSides ==
    \A i \in DOMAIN dfs.exec.rows :
        LET r == dfs.exec.rows[i]
        IN  /\ r.side = "BUY" => SignedSize(r) = r.size
            /\ r.side = "SELL" => SignedSize(r) = -r.size
            /\ r.side \notin {"BUY", "SELL"} =>
                  /\ ~Wrote("df_exec_delta.csv")
                  /\ pc \notin LoadPhase \cup {"write_tick", "write_exec", "exec_delta"}
                        => err = "MalformedRecordError"

RECURSIVE SumIdx(_, _)
\* the sum of signed_size over the rows with index in I
SumIdx(rows, I) ==
    IF I = {} THEN 0
    ELSE LET i == CHOOSE i \in I : TRUE
         IN  rows[i].signed_size + SumIdx(rows, I \ {i})

Perms(n) == {f \in [1..n -> 1..n] : \A i, j \in 1..n : f[i] = f[j] => i = j}

\* the permutations of 1..n for every length of the execution table
PermsUpTo == [n \in 0..MaxLen |-> Perms(n)]

\* C3: the flow table has exactly one row per distinct input timestamp, in
\* strictly increasing timestamp order, each value the sum of the signed sizes
\* with that timestamp; every permutation of the input gives the same table,
\* and the empty input gives the empty table.
C3_FlowTable ==
    Wrote("df_exec_delta.csv") =>
        LET pairs == Signed(dfs.exec.rows)
            flow == files["df_exec_delta.csv"].rows
        IN  /\ {flow[k].timestamp : k \in DOMAIN flow}
                  = {pairs[i].timestamp : i \in DOMAIN pairs}
            /\ \A k \in 1..(Len(flow) - 1) : flow[k].timestamp < flow[k + 1].timestamp
            /\ \A k \in DOMAIN flow :
                  flow[k].size =
                      SumIdx(pairs, {i \in DOMAIN pairs : pairs[i].timestamp = flow[k].timestamp})
            /\ \A f \in PermsUpTo[Len(pairs)] :
                  GroupBySum([i \in DOMAIN pairs |-> pairs[f[i]]]).rows = flow
            /\ pairs = <<>> => flow = <<>>

\* C3 witness: three executions, out of timestamp order and two of them at
\* the same timestamp, aggregated into two flow rows.
C3_Witness ==
    /\ Wrote("df_exec_delta.csv")
    /\ [i \in DOMAIN dfs.exec.rows |-> dfs.exec.rows[i].exec_date] = <<3, 1, 3>>
    /\ [i \in DOMAIN dfs.exec.rows |-> dfs.exec.rows[i].side] = <<"BUY", "SELL", "BUY">>
    /\ files["df_exec_delta.csv"].rows
          = << [timestamp |-> 1, size |-> -1], [timestamp |-> 3, size |-> 4] >>

\* std_i is defined for alpha[j], for every index a flow series can have
StdDefinedAt ==
    [j \in DOMAIN alpha |->
        [i \in 1..Cardinality(Timestamps) |->
            RPos(SpecW(alpha[j], i)) /\ SpecStdDefined(alpha[j], i)]]

\* the smoothed table has a row for flow row i and decay parameter a
Emitted(i, a) ==
    \E k \in DOMAIN files["df_ewm.csv"].rows :
        /\ files["df_ewm.csv"].rows[k].timestamp = df_exec_delta.rows[i].timestamp
        /\ files["df_ewm.csv"].rows[k].alpha = a

\* C4: the smoothed table has a row (timestamp_i, a) exactly for the indices
\* i at which std_i (and with it mean_i) is defined, and never for the first
\* timestamp of the flow series.
C4_SmoothedRows ==
    Wrote("df_ewm.csv") =>
        /\ \A k \in DOMAIN files["df_ewm.csv"].rows :
              \E i \in DOMAIN df_exec_delta.rows, j \in DOMAIN alpha :
                  /\ files["df_ewm.csv"].rows[k].timestamp = df_exec_delta.rows[i].timestamp
                  /\ files["df_ewm.csv"].rows[k].alpha = alpha[j]
        /\ \A i \in DOMAIN df_exec_delta.rows, j \in DOMAIN alpha :
              /\ Emitted(i, alpha[j]) <=> StdDefinedAt[j][i]
              /\ i = 1 => ~Emitted(i, alpha[j])

\* C4 witness: a flow series of three timestamps whose smoothed table holds
\* the second and third timestamp for each of the three decay parameters.
C4_Witness ==
    /\ Wrote("df_ewm.csv")
    /\ Len(df_exec_delta.rows) = 3
    /\ Len(files["df_ewm.csv"].rows) = 6
    /\ Emitted(3, alpha[1])
    /\ ~Emitted(1, alpha[1])

\* C5: when the load phase fails with a data-source error, no output artifact
\* has been written, and none is written afterwards.
C5_NoArtifactAfterLoadFailure ==
    err = "DataSourceError" =>
        /\ written = <<>>
        /\ \A a \in Artifacts : files[a] = NoFile

\* C5 witness: the execution table was read, the ticker table is absent, and
\* the run has failed.
C5_Witness ==
    /\ pc = "failed"
    /\ err = "DataSourceError"
    /\ dfs.exec.rows # <<>>
    /\ TickTable \notin fs[DefaultPath].tables

\* C6: after the load phase, whether it succeeded or failed, no connection to
\* the data store is open.
C6_NoConnectionAfterLoad == pc \notin LoadPhase => ~con.open

\* C7: the execution artifact has the columns timestamp, price, side, size
\* and the tick artifact timestamp, ltp, so that load_dfs reloads what main
\* wrote without error.
C7_ArtifactsReload ==
    /\ Wrote("df_exec.csv") =>
          files["df_exec.csv"].header = <<"timestamp", "price", "side", "size">>
    /\ Wrote("df_tick.csv") => files["df_tick.csv"].header = <<"timestamp", "ltp">>
    /\ pc = "loaded" => loaded.status = "ok"

RLe(p, q) == p[1] * q[2] <= q[1] * p[2]

\* C8 as stated: the smoothed rows are sorted by timestamp first and by decay
\* parameter second.
C8_SortedByTimestampThenAlpha ==
    Wrote("df_ewm.csv") =>
        LET out == files["df_ewm.csv"].rows
        IN  \A k, l \in DOMAIN out :
                k < l => /\ out[k].timestamp <= out[l].timestamp
                         /\ out[k].timestamp = out[l].timestamp
                               => RLe(out[k].alpha, out[l].alpha)

\* C8 amended: the smoothed rows are grouped by decay parameter in ascending
\* order, and within one decay parameter they are in strictly ascending
\* timestamp order.
C8_SortedByAlphaThenTimestamp ==
    Wrote("df_ewm.csv") =>
        LET out == files["df_ewm.csv"].rows
        IN  \A k, l \in DOMAIN out :
                k < l => /\ RLe(out[k].alpha, out[l].alpha)
                         /\ out[k].alpha = out[l].alpha
                               => out[k].timestamp < out[l].timestamp

\* C8 witness: a smoothed table in which a later timestamp of the smallest
\* decay parameter comes before an earlier timestamp of the next one.
C8_Witness ==
    /\ Wrote("df_ewm.csv")
    /\ Len(files["df_ewm.csv"].rows) = 6
    /\ files["df_ewm.csv"].rows[2].timestamp > files["df_ewm.csv"].rows[3].timestamp
    /\ files["df_ewm.csv"].rows[2].alpha = alpha[1]
    /\ files["df_ewm.csv"].rows[3].alpha = alpha[2]

====
